---- MODULE Spec2Model ----
(***************************************************************************)
(* Weather dashboard: three transform functions (config/config.py), the    *)
(* scenario set-up (scenarios/pipeline.py) and the four GUI callbacks      *)
(* (pages/dashboard.py), over small tables.                                *)
(*                                                                         *)
(* A table (pandas DataFrame) is a record                                  *)
(*   [columns : sequence of column names, dateDtype : dtype of the 'date'  *)
(*    column, rows : sequence of functions column name -> value].          *)
(* A timestamp is a number of hours; the Year/Month/Day/Hour/Minute        *)
(* columns of the CSV are the two columns "Day" and "Hour".                *)
(***************************************************************************)
EXTENDS Integers, Sequences, FiniteSets, TLC

\* ---------------------------------------------------------------- bounds
MaxWeatherRows == 2
MaxFailures == 1

\* ------------------------------------------------------- program constants
SITES_COLUMN == "Sites"
SITE_AWS_DISPLAY_COLUMN == "AWS"
AWS_ID_COLUMN == "AWS ID"
DATE_COLUMN == "date"
DefaultSpanDays == 30
HoursPerDay == 24

\* ------------------------------------------------------------- universes
SiteNames == {"s1", "s2"}
DisplayNames == {"n1", "n2"}
AwsIds == {1, 2}
Days == {1, 2}
LastDay == CHOOSE d \in Days : \A e \in Days : e <= d
Hours == {0, 12}
ParamColumns == <<"p1", "p2">>

\* ----------------------------------------------------------- option values
None == [none |-> TRUE, v |-> <<>>]
Some(x) == [none |-> FALSE, v |-> x]
Truthy(o) == ~o.none /\ o.v # <<>>

\* a datetime value: a timestamp, NaT (min/max of an empty column) or None
Ts(n) == [k |-> "ts", t |-> n]
NaT == [k |-> "nat", t |-> 0]
NoDate == [k |-> "none", t |-> 0]
NoDates == [none |-> TRUE, lo |-> NoDate, hi |-> NoDate]
DateRange(a, b) == [none |-> FALSE, lo |-> a, hi |-> b]

\* comparisons of a row's timestamp with a bound; any comparison with NaT is False
GeTs(n, b) == b.k = "ts" /\ n >= b.t
LeTs(n, b) == b.k = "ts" /\ n <= b.t

\* ------------------------------------------------------------ sequences
RECURSIVE SelectSeqBy(_, _)
InSeq(x, s) == \E i \in 1..Len(s) : s[i] = x
Range(s) == {s[i] : i \in 1..Len(s)}
SelectSeqBy(s, keep) ==
    IF s = <<>> THEN <<>>
    ELSE (IF Head(s) \in keep THEN <<Head(s)>> ELSE <<>>) \o SelectSeqBy(Tail(s), keep)
RECURSIVE Unique(_)
Unique(s) ==
    IF s = <<>> THEN <<>>
    ELSE LET u == Unique(SubSeq(s, 1, Len(s) - 1))
         IN IF InSeq(s[Len(s)], u) THEN u ELSE Append(u, s[Len(s)])
RECURSIVE SortedSeq(_)
SortedSeq(S) ==
    IF S = {} THEN <<>>
    ELSE LET m == CHOOSE x \in S : \A y \in S : x <= y
         IN <<m>> \o SortedSeq(S \ {m})
SeqsUpTo(S, n) == UNION {[1..k -> S] : k \in 0..n}

\* ------------------------------------------------------------ dataframes
Frame(cols, dtype, rows) == [columns |-> cols, dateDtype |-> dtype, rows |-> rows]
HasColumn(df, c) == InSeq(c, df.columns)
Column(df, c) == [i \in 1..Len(df.rows) |-> df.rows[i][c]]
Where(df, Keep(_)) ==
    LET RECURSIVE F(_)
        F(s) == IF s = <<>> THEN <<>>
                ELSE (IF Keep(Head(s)) THEN <<Head(s)>> ELSE <<>>) \o F(Tail(s))
    IN [df EXCEPT !.rows = F(df.rows)]
ColSet(cols) == {cols[i] : i \in 1..Len(cols)}
Project(df, cols) ==
    [df EXCEPT !.columns = cols,
               !.rows = [i \in 1..Len(df.rows) |-> [c \in ColSet(cols) |-> df.rows[i][c]]]]

\* pd.to_datetime(df[['Year','Month','Day','Hour','Minute']])
ToDatetime(row) == row["Day"] * HoursPerDay + row["Hour"]
\* df[DATE_COLUMN] = pd.to_datetime(...): sets the column in place
SetDateColumn(df) ==
    [columns |-> IF HasColumn(df, DATE_COLUMN) THEN df.columns
                 ELSE Append(df.columns, DATE_COLUMN),
     dateDtype |-> "datetime64",
     rows |-> [i \in 1..Len(df.rows) |->
                 [c \in ColSet(df.columns) \cup {DATE_COLUMN} |->
                     IF c = DATE_COLUMN THEN ToDatetime(df.rows[i]) ELSE df.rows[i][c]]]]
NeedsDate(df) == ~HasColumn(df, DATE_COLUMN) \/ df.dateDtype # "datetime64"

\* a value held by the sites_data / weather_data data node: the path of a CSV
\* file (df is then what pd.read_csv of it returns) or a loaded table
PathValue(df) == [isStr |-> TRUE, df |-> df]
TableValue(df) == [isStr |-> FALSE, df |-> df]
ReadCsv(v) == v.df

\* ------------------------------------------------------------------ tasks
\* the weather table a task works on, and what its argument is afterwards:
\* a path is read into a fresh table; a table is used as passed (no copy), so
\* setting the date column changes the caller's table
LoadWeather(weather_data) ==
    IF weather_data.isStr
    THEN [df |-> SetDateColumn(ReadCsv(weather_data)), arg |-> weather_data]
    ELSE IF NeedsDate(weather_data.df)
         THEN [df |-> SetDateColumn(weather_data.df),
               arg |-> TableValue(SetDateColumn(weather_data.df))]
         ELSE [df |-> weather_data.df, arg |-> weather_data]
LoadSites(sites_data) == IF sites_data.isStr THEN ReadCsv(sites_data) ELSE sites_data.df

MinTs(S) == IF S = {} THEN NaT ELSE Ts(CHOOSE x \in S : \A y \in S : x <= y)
MaxTs(S) == IF S = {} THEN NaT ELSE Ts(CHOOSE x \in S : \A y \in S : x >= y)

\* preprocess_data_task: (unique site names, (min date, max date))
preprocess_data_task(weather_data, sites_data) ==
    LET w == LoadWeather(weather_data)
        df_sites == LoadSites(sites_data)
        ds == Range(Column(w.df, DATE_COLUMN))
    IN [site_names |-> Unique(Column(df_sites, SITES_COLUMN)),
        dates |-> DateRange(MinTs(ds), MaxTs(ds)),
        weather_after |-> w.arg,
        sites_after |-> sites_data]

\* df_sites[df_sites[SITES_COLUMN].isin(selected_sites)][AWS_ID_COLUMN].tolist()
AwsIdsFromSites(df_sites, selected_sites) ==
    Column(Where(df_sites, LAMBDA r : InSeq(r[SITES_COLUMN], selected_sites)), AWS_ID_COLUMN)

\* (mutant: the site list is matched against station IDs of every site)
FilterBySites_anySite(df, df_sites, selected_sites) ==
    IF Truthy(selected_sites)
    THEN Where(df, LAMBDA r : InSeq(r[AWS_ID_COLUMN], Column(df_sites, AWS_ID_COLUMN)))
    ELSE df
FilterBySites(df, df_sites, selected_sites) ==
    IF Truthy(selected_sites)
    THEN LET aws_ids_from_sites == AwsIdsFromSites(df_sites, selected_sites.v)
         IN Where(df, LAMBDA r : InSeq(r[AWS_ID_COLUMN], aws_ids_from_sites))
    ELSE df
FilterByAws(df, selected_aws) ==
    IF Truthy(selected_aws)
    THEN Where(df, LAMBDA r : InSeq(r[AWS_ID_COLUMN], selected_aws.v))
    ELSE df
\* (mutant: the end of the range is exclusive)
FilterByDates_exclusive(df, dates) ==
    IF ~dates.none /\ dates.lo.k # "none" /\ dates.hi.k # "none"
    THEN Where(df, LAMBDA r : GeTs(r[DATE_COLUMN], dates.lo) /\ LeTs(r[DATE_COLUMN] + 1, dates.hi))
    ELSE df
FilterByDates(df, dates) ==
    IF ~dates.none /\ dates.lo.k # "none" /\ dates.hi.k # "none"
    THEN Where(df, LAMBDA r : GeTs(r[DATE_COLUMN], dates.lo) /\ LeTs(r[DATE_COLUMN], dates.hi))
    ELSE df
\* (mutant: with nothing selected, every parameter column is taken)
ValidParams_allWhenEmpty(df, parameters) ==
    IF Truthy(parameters) THEN SelectSeqBy(parameters.v, ColSet(df.columns))
    ELSE SelectSeqBy(df.columns, ColSet(ParamColumns))
\* [p for p in parameters if p in df.columns]
ValidParams(df, parameters) ==
    IF Truthy(parameters) THEN SelectSeqBy(parameters.v, ColSet(df.columns)) ELSE <<>>

\* filter_data_task: the filtered table, and the weather argument afterwards
filter_data_task(sites_data, weather_data, selected_sites, selected_aws, dates, parameters) ==
    LET w == LoadWeather(weather_data)
        df_sites == LoadSites(sites_data)
        filtered_df == FilterByDates(FilterByAws(FilterBySites(w.df, df_sites, selected_sites),
                                                 selected_aws), dates)
        columns_to_return == SelectSeqBy(<<DATE_COLUMN, AWS_ID_COLUMN>>
                                            \o ValidParams(filtered_df, parameters),
                                         ColSet(filtered_df.columns))
    IN [ret |-> Project(filtered_df, columns_to_return),
        weather_after |-> w.arg,
        sites_after |-> sites_data]

\* plotly figures
EmptyFigure == [title |-> "", xaxis_title |-> "", yaxis_title |-> "",
                legend_title |-> "", traces |-> <<>>]
Scatter(group, aws_id_val, param) ==
    [name |-> <<aws_id_val, param>>, mode |-> "lines",
     x |-> Column(group, DATE_COLUMN), y |-> Column(group, param)]
\* pd.to_datetime(filtered_data[DATE_COLUMN]): parses the column's values
\* (a date string "DDHH" is held as the number DDHH)
ParseDate(v) == (v \div 100) * HoursPerDay + (v % 100)
ParseDateColumn(df) ==
    [df EXCEPT !.dateDtype = "datetime64",
               !.rows = [i \in 1..Len(df.rows) |->
                           [df.rows[i] EXCEPT ![DATE_COLUMN] = ParseDate(@)]]]
\* (mutant: the table is not grouped, one trace per parameter)
TracesOf_ungrouped(df, ids, valid_params) ==
    [i \in 1..Len(valid_params) |-> Scatter(df, ids[1], valid_params[i])]
\* for aws_id_val, group in df.groupby(AWS_ID_COLUMN): for param in valid_params
RECURSIVE TracesOf(_, _, _)
TracesOf(df, ids, valid_params) ==
    IF ids = <<>> THEN <<>>
    ELSE LET group == Where(df, LAMBDA r : r[AWS_ID_COLUMN] = Head(ids))
         IN [i \in 1..Len(valid_params) |-> Scatter(group, Head(ids), valid_params[i])]
            \o TracesOf(df, Tail(ids), valid_params)

\* create_figure_task: the figure, and the filtered_data argument afterwards
create_figure_task(filtered_data, parameters) ==
    IF filtered_data.none \/ filtered_data.v.rows = <<>>
    THEN [ret |-> [EmptyFigure EXCEPT !.title = "No data available for selected filters"],
          filtered_after |-> filtered_data]
    ELSE LET df == IF HasColumn(filtered_data.v, DATE_COLUMN)
                      /\ filtered_data.v.dateDtype # "datetime64"
                   THEN ParseDateColumn(filtered_data.v) ELSE filtered_data.v
             valid_params == ValidParams(df, parameters)
         IN IF valid_params = <<>>
            THEN [ret |-> [EmptyFigure EXCEPT
                     !.title = "No valid parameters selected or parameters not in data"],
                  filtered_after |-> Some(df)]
            ELSE [ret |-> [title |-> "Weather Parameters Over Time",
                           xaxis_title |-> "Date", yaxis_title |-> "Value",
                           legend_title |-> "AWS & Parameter",
                           traces |-> TracesOf(df,
                                        SortedSeq(Range(Column(df, AWS_ID_COLUMN))),
                                        valid_params)],
                  filtered_after |-> Some(df)]

\* ----------------------------------------------------------------- inputs
\* observations: the value of a parameter column in the row of a station and day
Obs(id, d, c) == IF c = "p1" THEN 10 * id + d ELSE 20 * id + d
RawColumns == <<AWS_ID_COLUMN, "Day", "Hour">> \o ParamColumns
RawRow(id, d, h) ==
    [c \in ColSet(RawColumns) |->
        IF c = AWS_ID_COLUMN THEN id ELSE IF c = "Day" THEN d
        ELSE IF c = "Hour" THEN h ELSE Obs(id, d, c)]
RawRows == {RawRow(id, d, h) : id \in AwsIds, d \in Days, h \in Hours}
\* what pd.read_csv returns for a weather file: no date column yet
CsvWeatherFrames == {Frame(RawColumns, "none", rows) : rows \in SeqsUpTo(RawRows, MaxWeatherRows)}
\* the same table with a date column of strings (dtype object)
DateString(d, h) == d * 100 + h
WithStringDates(df) ==
    [columns |-> Append(df.columns, DATE_COLUMN), dateDtype |-> "object",
     rows |-> [i \in 1..Len(df.rows) |->
                 [c \in ColSet(df.columns) \cup {DATE_COLUMN} |->
                     IF c = DATE_COLUMN THEN DateString(df.rows[i]["Day"], df.rows[i]["Hour"])
                     ELSE df.rows[i][c]]]]
WeatherValues ==
    {PathValue(df) : df \in CsvWeatherFrames}
    \cup {TableValue(df) : df \in CsvWeatherFrames}
    \cup {TableValue(SetDateColumn(df)) : df \in CsvWeatherFrames}
    \cup {TableValue(WithStringDates(df)) : df \in CsvWeatherFrames}

SitesColumns == <<SITES_COLUMN, SITE_AWS_DISPLAY_COLUMN, AWS_ID_COLUMN>>
SitesRow(site, name, id) ==
    [c \in ColSet(SitesColumns) |->
        IF c = SITES_COLUMN THEN site ELSE IF c = SITE_AWS_DISPLAY_COLUMN THEN name ELSE id]
\* a station's display name
DisplayOf(id) == IF id = 1 THEN "n1" ELSE "n2"
\* every relation between sites and stations, one row per pair
SitePairs == <<<<"s1", 1>>, <<"s1", 2>>, <<"s2", 1>>, <<"s2", 2>>>>
SitesFrames ==
    {Frame(SitesColumns, "none",
           [i \in 1..Len(SelectSeqBy(SitePairs, R)) |->
               LET pr == SelectSeqBy(SitePairs, R)[i]
               IN SitesRow(pr[1], DisplayOf(pr[2]), pr[2])]) : R \in SUBSET Range(SitePairs)}

\* the tables the dashboard runs on: site s1 with two stations and s2 with none,
\* or two sites whose stations share a display name; every station reports
\* on every day
TwoStationSite ==
    Frame(SitesColumns, "none", <<SitesRow("s1", "n1", 1), SitesRow("s1", "n2", 2)>>)
SharedDisplayName ==
    Frame(SitesColumns, "none", <<SitesRow("s1", "n1", 1), SitesRow("s2", "n1", 2)>>)
RECURSIVE GridRows(_)
GridRows(d) ==
    IF d = 0 THEN <<>>
    ELSE GridRows(d - 1) \o [i \in 1..Cardinality(AwsIds) |-> RawRow(SortedSeq(AwsIds)[i], d, 0)]
GridFrame == Frame(RawColumns, "none", GridRows(LastDay))
\* sites_data and weather_data hold the CSV paths (their default_data); a
\* loaded sites table is what on_site_selection expects
SystemSites == {PathValue(TwoStationSite), TableValue(TwoStationSite),
                TableValue(SharedDisplayName)}
SystemWeather == {PathValue(GridFrame)}

SiteSelections == {None, Some(<<>>), Some(<<"s1">>), Some(<<"s2">>), Some(<<"s2", "s1">>)}
AwsSelections == {None, Some(<<>>), Some(<<1>>), Some(<<2>>), Some(<<2, 1>>)}
DayStarts == {Ts(d * HoursPerDay) : d \in Days}
DateSelections ==
    {NoDates} \cup {DateRange(a, b) : a \in DayStarts \cup {NoDate}, b \in DayStarts}
ParamSelections ==
    {None, Some(<<>>), Some(<<"p1">>), Some(<<"zz">>), Some(<<"p2", "zz", "p1">>)}

\* ------------------------------------------------------------------ state
VARIABLES
    phase,                  \* "boot", "created" (scenario made), "ready" (page module loaded)
    now,                    \* datetime.now() at scenario creation, in hours
    sites_data,             \* global data node sites_data
    weather_data,           \* global data node weather_data
    scenario,               \* the scenario's data nodes and what the last submit ran
    st_site_names,          \* state.site_names: selected sites
    st_Aws,                 \* state.Aws: station display names on offer
    st_Aws_default,         \* state.Aws_default: selected station display names
    st_aws_name_to_id_map,  \* state.aws_name_to_id_map
    st_dates,               \* state.dates
    st_parameters,          \* state.parameters
    st_figure,              \* state.figure
    last_cb,                \* the callback that ran last
    outcome,                \* how it ended: "returned" or "raised"
    console,                \* what it printed
    failed_op,              \* the framework call that raised in it, or "none"
    failures,               \* how many callbacks have raised so far
    fn_in,                  \* a direct call of a transform function: its arguments
    fn_out                  \* and its result with the arguments afterwards

sysvars == <<phase, now, sites_data, weather_data, scenario, st_site_names, st_Aws,
             st_Aws_default, st_aws_name_to_id_map, st_dates, st_parameters, st_figure,
             last_cb, outcome, console, failed_op, failures>>
vars == <<phase, now, sites_data, weather_data, scenario, st_site_names, st_Aws,
          st_Aws_default, st_aws_name_to_id_map, st_dates, st_parameters, st_figure,
          last_cb, outcome, console, failed_op, failures,
          fn_in, fn_out>>

\* ----------------------------------------------------- scenario data nodes
\* the inputs of the two skippable tasks
FilterInputs == {"sites_data", "weather_data", "selected_sites", "selected_aws",
                 "dates", "parameters"}
FigureInputs == {"filtered_data", "parameters"}

\* data-node write: the node holds the value; a skippable task that reads the
\* node has an input newer than its output
Write(sc, node, val) ==
    [sc EXCEPT ![node] = val,
               !.filter_fresh = IF node \in FilterInputs THEN FALSE ELSE @,
               !.figure_fresh = IF node \in FigureInputs THEN FALSE ELSE @]

\* the three tasks of the scenario, in dependency order
RunPreprocess(sc, sd, wd) ==
    LET r == preprocess_data_task(wd, sd)
    IN [Write(Write(sc, "site_names", Some(r.site_names)), "dates", r.dates)
            EXCEPT !.ran = Append(sc.ran, "preprocess_data")]
RunFilter(sc, sd, wd) ==
    IF sc.filter_fresh THEN sc
    ELSE LET r == filter_data_task(sd, wd, sc.selected_sites, sc.selected_aws,
                                   sc.dates, sc.parameters)
         IN [Write(sc, "filtered_data", Some(r.ret))
                EXCEPT !.filter_fresh = TRUE, !.ran = Append(sc.ran, "filter_data")]
RunFigure(sc) ==
    IF sc.figure_fresh THEN sc
    ELSE LET r == create_figure_task(sc.filtered_data, sc.parameters)
         IN [Write(sc, "figure", Some(r.ret))
                EXCEPT !.figure_fresh = TRUE, !.ran = Append(sc.ran, "create_figure")]

\* scenario.submit(), stopped after `done` tasks (3: it returns)
Submit(sc, sd, wd, done) ==
    LET s0 == [sc EXCEPT !.ran = <<>>]
        s1 == IF done >= 1 THEN RunPreprocess(s0, sd, wd) ELSE s0
        s2 == IF done >= 2 THEN RunFilter(s1, sd, wd) ELSE s1
    IN IF done >= 3 THEN RunFigure(s2) ELSE s2

\* the scenario as created from scenario_cfg: the nodes' default data
parameters_all_available == ParamColumns
DefaultParameters ==
    IF parameters_all_available # <<>> THEN <<parameters_all_available[1]>> ELSE <<>>
NewScenario ==
    [site_names |-> None, dates |-> NoDates, selected_sites |-> None,
     selected_aws |-> Some(<<>>), parameters |-> Some(DefaultParameters),
     all_parameters_list |-> parameters_all_available,
     filtered_data |-> None, figure |-> None,
     filter_fresh |-> FALSE, figure_fresh |-> FALSE, ran |-> <<>>]

\* create_scenario_instance: the default values written, then submit
DefaultDates(t) == DateRange(Ts(t - DefaultSpanDays * HoursPerDay), Ts(t))
WrittenDefaults(sd, t) ==
    LET site_names_list == Unique(Column(ReadCsv(sd), SITES_COLUMN))
        w1 == Write(NewScenario, "site_names", Some(site_names_list))
        w2 == Write(w1, "dates", DefaultDates(t))
        w3 == Write(w2, "selected_sites", None)
        w4 == Write(w3, "selected_aws", Some(<<>>))
        w5 == Write(w4, "all_parameters_list", parameters_all_available)
    IN Write(w5, "parameters", Some(DefaultParameters))
create_scenario_instance_result(sd, wd, t) == Submit(WrittenDefaults(sd, t), sd, wd, 3)

\* --------------------------------------------------------- page callbacks
\* sites_data[sites_data[SITES_COLUMN].isin(selected)]
RelevantSites(df, selected) == Where(df, LAMBDA r : InSeq(r[SITES_COLUMN], selected))
AwsDisplayNames(relevant) == Unique(Column(relevant, SITE_AWS_DISPLAY_COLUMN))
\* pd.Series(ids, index=display names).to_dict(): the last row of a name wins
NameToIdMap(relevant) ==
    [n \in Range(Column(relevant, SITE_AWS_DISPLAY_COLUMN)) |->
        LET last == CHOOSE i \in 1..Len(relevant.rows) :
                        /\ relevant.rows[i][SITE_AWS_DISPLAY_COLUMN] = n
                        /\ \A j \in (i + 1)..Len(relevant.rows) :
                               relevant.rows[j][SITE_AWS_DISPLAY_COLUMN] # n
        IN relevant.rows[last][AWS_ID_COLUMN]]
\* (mutant: every station on offer is selected)
FirstOrNone_all(names) == names
\* [names[0]] if names else []
FirstOrNone(names) == IF names # <<>> THEN <<names[1]>> ELSE <<>>

\* update_aws_state_and_scenario: the station IDs written to selected_aws
RECURSIVE SelectedAwsIds(_, _)
SelectedAwsIds(names, current_map) ==
    IF names = <<>> THEN <<>>
    ELSE (IF Head(names) \in DOMAIN current_map THEN <<current_map[Head(names)]>> ELSE <<>>)
         \o SelectedAwsIds(Tail(names), current_map)

SubmitFails == {"submit0", "submit1", "submit2"}
TasksDone(fail) == IF fail = "submit0" THEN 0 ELSE IF fail = "submit1" THEN 1
                   ELSE IF fail = "submit2" THEN 2 ELSE 3
TailFails == SubmitFails \cup {"read_figure", "none"}

\* (mutant: the figure is read before the submit)
SubmitAndShow_readFirst(sc, fail) ==
    /\ scenario' = Submit(sc, sites_data, weather_data, TasksDone(fail))
    /\ st_figure' = IF fail = "none" THEN sc.figure ELSE st_figure
\* state.scenario.submit(); state.figure = state.scenario.figure.read()
SubmitAndShow(sc, fail) ==
    /\ scenario' = Submit(sc, sites_data, weather_data, TasksDone(fail))
    /\ st_figure' = IF fail = "none" THEN scenario'.figure ELSE st_figure

ErrorIn(cb) == <<"Error in", cb>>
NotADataFrame == <<"Error: sites_data is not a DataFrame in on_site_selection.">>
\* (mutant: the exception is printed and swallowed)
Ending_swallowed(cb, fail) ==
    /\ last_cb' = cb
    /\ failed_op' = fail
    /\ fail # "none" => failures < MaxFailures
    /\ failures' = IF fail = "none" THEN failures ELSE failures + 1
    /\ outcome' = "returned"
    /\ console' = IF fail = "none" THEN <<>> ELSE ErrorIn(cb)
\* try: ... except Exception as e: print(...); raise
Ending(cb, fail) ==
    /\ last_cb' = cb
    /\ failed_op' = fail
    /\ fail # "none" => failures < MaxFailures
    /\ failures' = IF fail = "none" THEN failures ELSE failures + 1
    /\ outcome' = IF fail = "none" THEN "returned" ELSE "raised"
    /\ console' = IF fail = "none" THEN <<>> ELSE ErrorIn(cb)

\* isinstance(sites_data, pd.DataFrame)
IsDataFrame_always(v) == TRUE
IsDataFrame(v) == ~v.isStr

Frozen == UNCHANGED <<phase, now, sites_data, weather_data, fn_in, fn_out>>

on_site_selection(selected, fail) ==
    /\ phase = "ready"
    /\ st_site_names' = selected
    /\ Frozen
    /\ UNCHANGED <<st_dates, st_parameters>>
    /\ IF fail = "read_sites_data"
       THEN /\ Ending("on_site_selection", fail)
            /\ UNCHANGED <<scenario, st_Aws, st_Aws_default, st_aws_name_to_id_map, st_figure>>
       ELSE IF ~IsDataFrame(sites_data)
       THEN \* not a DataFrame: print and return
            /\ fail = "none"
            /\ last_cb' = "on_site_selection"
            /\ failed_op' = "none"
            /\ failures' = failures
            /\ outcome' = "returned"
            /\ console' = NotADataFrame
            /\ UNCHANGED <<scenario, st_Aws, st_Aws_default, st_aws_name_to_id_map, st_figure>>
       ELSE IF fail = "write_selected_sites"
       THEN /\ Ending("on_site_selection", fail)
            /\ UNCHANGED <<scenario, st_Aws, st_Aws_default, st_aws_name_to_id_map, st_figure>>
       ELSE LET relevant_sites_df == RelevantSites(sites_data.df, selected)
                aws_display_names == AwsDisplayNames(relevant_sites_df)
                sc1 == Write(scenario, "selected_sites", Some(selected))
            IN /\ st_Aws' = IF selected # <<>> THEN aws_display_names ELSE <<>>
               /\ st_aws_name_to_id_map' =
                      IF selected # <<>> THEN NameToIdMap(relevant_sites_df) ELSE <<>>
               /\ st_Aws_default' =
                      IF selected # <<>> THEN FirstOrNone(aws_display_names) ELSE <<>>
               /\ Ending("on_site_selection", fail)
               /\ IF fail = "write_selected_aws"
                  THEN scenario' = sc1 /\ UNCHANGED st_figure
                  ELSE SubmitAndShow(
                          Write(sc1, "selected_aws",
                                Some(SelectedAwsIds(st_Aws_default', st_aws_name_to_id_map'))),
                          fail)

on_aws_selection(selected, fail) ==
    /\ phase = "ready"
    /\ st_Aws_default' = selected
    /\ Frozen
    /\ UNCHANGED <<st_site_names, st_Aws, st_aws_name_to_id_map, st_dates, st_parameters>>
    /\ Ending("on_aws_selection", fail)
    /\ IF fail = "write_selected_aws"
       THEN UNCHANGED <<scenario, st_figure>>
       ELSE SubmitAndShow(
               Write(scenario, "selected_aws",
                     Some(SelectedAwsIds(selected, st_aws_name_to_id_map))),
               fail)

on_date_change(selected, fail) ==
    /\ phase = "ready"
    /\ st_dates' = selected
    /\ Frozen
    /\ UNCHANGED <<st_site_names, st_Aws, st_Aws_default, st_aws_name_to_id_map, st_parameters>>
    /\ Ending("on_date_change", fail)
    /\ IF fail = "write_dates"
       THEN UNCHANGED <<scenario, st_figure>>
       ELSE SubmitAndShow(Write(scenario, "dates", selected), fail)

on_parameter_change(selected, fail) ==
    /\ phase = "ready"
    /\ st_parameters' = selected
    /\ Frozen
    /\ UNCHANGED <<st_site_names, st_Aws, st_Aws_default, st_aws_name_to_id_map, st_dates>>
    /\ Ending("on_parameter_change", fail)
    /\ IF fail = "write_parameters"
       THEN UNCHANGED <<scenario, st_figure>>
       ELSE SubmitAndShow(Write(scenario, "parameters", Some(selected)), fail)

\* ------------------------------------------- the transform functions, called
DatedFrames == {SetDateColumn(df) : df \in CsvWeatherFrames}
FilterCall(sd, wd, ss, sa, d, ps) ==
    [fn |-> "filter_data_task", sites_data |-> sd, weather_data |-> wd,
     selected_sites |-> ss, selected_aws |-> sa, dates |-> d, parameters |-> ps]
IsFilterCall ==
    \* row filtering: every selection over every loaded weather and sites table
    \/ \E s \in SitesFrames, w \in DatedFrames, ss \in SiteSelections,
          sa \in AwsSelections, d \in DateSelections :
          fn_in = FilterCall(TableValue(s), TableValue(w), ss, sa, d, Some(<<"p1">>))
    \* loading and columns: paths and tables, with and without a date column
    \/ \E s \in {PathValue(TwoStationSite), TableValue(TwoStationSite)}, w \in WeatherValues,
          ss \in {None, Some(<<"s1">>)}, ps \in ParamSelections :
          fn_in = FilterCall(s, w, ss, Some(<<>>), NoDates, ps)
IsPreprocessCall ==
    \E w \in WeatherValues,
       s \in {PathValue(TwoStationSite), TableValue(TwoStationSite),
               TableValue(SharedDisplayName)} :
       fn_in = [fn |-> "preprocess_data_task", weather_data |-> w, sites_data |-> s]
FigureColumns == {<<DATE_COLUMN, AWS_ID_COLUMN>>, <<DATE_COLUMN, AWS_ID_COLUMN, "p1">>,
                  <<DATE_COLUMN, AWS_ID_COLUMN, "p2", "p1">>}
FigureFrames ==
    {Project(df, cols) : df \in DatedFrames \cup {WithStringDates(f) : f \in CsvWeatherFrames},
                         cols \in FigureColumns}
IsFigureCall ==
    \E fd \in {None} \cup {Some(df) : df \in FigureFrames}, ps \in ParamSelections :
       fn_in = [fn |-> "create_figure_task", filtered_data |-> fd, parameters |-> ps]

call_preprocess_data_task ==
    /\ fn_in.fn = "preprocess_data_task"
    /\ ~fn_out.done
    /\ fn_out' = [done |-> TRUE,
                  res |-> preprocess_data_task(fn_in.weather_data, fn_in.sites_data)]
    /\ UNCHANGED <<sysvars, fn_in>>
call_filter_data_task ==
    /\ fn_in.fn = "filter_data_task"
    /\ ~fn_out.done
    /\ fn_out' = [done |-> TRUE,
                  res |-> filter_data_task(fn_in.sites_data, fn_in.weather_data,
                                           fn_in.selected_sites, fn_in.selected_aws,
                                           fn_in.dates, fn_in.parameters)]
    /\ UNCHANGED <<sysvars, fn_in>>
call_create_figure_task ==
    /\ fn_in.fn = "create_figure_task"
    /\ ~fn_out.done
    /\ fn_out' = [done |-> TRUE,
                  res |-> create_figure_task(fn_in.filtered_data, fn_in.parameters)]
    /\ UNCHANGED <<sysvars, fn_in>>

\* ------------------------------------------------------------- start-up
\* pages/dashboard.py, module level: the scenario is created and the page's
\* variables are read from its data nodes
dashboard_module_init ==
    /\ phase = "boot"
    /\ phase' = "ready"
    /\ scenario' = create_scenario_instance_result(sites_data, weather_data, now)
    /\ st_dates' = scenario'.dates
    /\ st_parameters' = scenario'.parameters.v
    /\ st_figure' = scenario'.figure
    \* selected_sites_initial is the None just written: the block under
    \* `if selected_sites_initial:` does not run
    /\ ~Truthy(scenario'.selected_sites)
    /\ st_site_names' = <<>>
    /\ st_Aws' = <<>>
    /\ st_Aws_default' = <<>>
    /\ st_aws_name_to_id_map' = <<>>
    /\ UNCHANGED <<now, sites_data, weather_data, last_cb, outcome, console, failed_op,
                   failures, fn_in, fn_out>>

\* ------------------------------------------------------ what the user picks
NoRepeat(s) == \A i, j \in 1..Len(s) : i # j => s[i] # s[j]
\* the site selector offers the site names read when the page module loaded
\* (every submit writes the same list again)
site_names_lov == scenario.site_names.v
GuiSiteChoices(lov) == {s \in SeqsUpTo(Range(lov), Len(lov)) : NoRepeat(s)}
GuiAwsChoices(lov) == {s \in SeqsUpTo(Range(lov), Len(lov)) : NoRepeat(s)}
\* the first day alone, or the first day to the last
GuiDateChoices == {DateRange(Ts(HoursPerDay), Ts(d * HoursPerDay)) : d \in {1, LastDay}}
GuiParamChoices == {<<>>, <<"p1">>, <<"p2", "p1">>}

NowValues == {(DefaultSpanDays + LastDay) * HoursPerDay}

NoCall == [fn |-> "none"]
Pending == [done |-> FALSE]

Init ==
    /\ phase = "boot"
    /\ now \in NowValues
    /\ sites_data \in SystemSites
    /\ weather_data \in SystemWeather
    /\ scenario = NewScenario
    /\ st_site_names = <<>>
    /\ st_Aws = <<>>
    /\ st_Aws_default = <<>>
    /\ st_aws_name_to_id_map = <<>>
    /\ st_dates = NoDates
    /\ st_parameters = <<>>
    /\ st_figure = None
    /\ last_cb = "none"
    /\ outcome = "none"
    /\ console = <<>>
    /\ failed_op = "none"
    /\ failures = 0
    /\ fn_in = NoCall
    /\ fn_out = Pending

\* a transform function called on its own, outside the dashboard
Idle ==
    /\ phase = "call"
    /\ now = 0
    /\ sites_data = PathValue(TwoStationSite)
    /\ weather_data = PathValue(GridFrame)
    /\ scenario = NewScenario
    /\ st_site_names = <<>>
    /\ st_Aws = <<>>
    /\ st_Aws_default = <<>>
    /\ st_aws_name_to_id_map = <<>>
    /\ st_dates = NoDates
    /\ st_parameters = <<>>
    /\ st_figure = None
    /\ last_cb = "none"
    /\ outcome = "none"
    /\ console = <<>>
    /\ failed_op = "none"
    /\ failures = 0
    /\ fn_out = Pending

InitFn == Idle /\ (IsPreprocessCall \/ IsFilterCall \/ IsFigureCall)

NextFn ==
    \/ call_preprocess_data_task
    \/ call_filter_data_task
    \/ call_create_figure_task

SpecFn == InitFn /\ [][NextFn]_vars

Next ==
    \/ dashboard_module_init
    \/ \E sel \in GuiSiteChoices(site_names_lov) :
          \E fail \in {"read_sites_data", "write_selected_sites", "write_selected_aws"}
                        \cup TailFails :
             on_site_selection(sel, fail)
    \/ \E sel \in GuiAwsChoices(st_Aws) : \E fail \in {"write_selected_aws"} \cup TailFails :
          on_aws_selection(sel, fail)
    \/ \E sel \in GuiDateChoices : \E fail \in {"write_dates"} \cup TailFails :
          on_date_change(sel, fail)
    \/ \E sel \in GuiParamChoices : \E fail \in {"write_parameters"} \cup TailFails :
          on_parameter_change(sel, fail)

Spec == Init /\ [][Next]_vars

\* the dashboard, and create_figure_task called on its own
InitChart == Init \/ (Idle /\ IsFigureCall)
NextChart == Next \/ call_create_figure_task
SpecChart == InitChart /\ [][NextChart]_vars

\* ------------------------------------------------------------- properties
Called(f) == fn_in.fn = f /\ fn_out.done
SetOf(s) == {s[i] : i \in 1..Len(s)}

\* C1: with a non-empty list of selected sites, every row filter_data_task
\* returns has a station ID that the sites table lists under a selected site
C1_RowsUnderSelectedSites ==
    (Called("filter_data_task") /\ Truthy(fn_in.selected_sites)) =>
        \A i \in 1..Len(fn_out.res.ret.rows) :
            \E j \in 1..Len(fn_in.sites_data.df.rows) :
                /\ fn_in.sites_data.df.rows[j][SITES_COLUMN] \in SetOf(fn_in.selected_sites.v)
                /\ fn_in.sites_data.df.rows[j][AWS_ID_COLUMN]
                      = fn_out.res.ret.rows[i][AWS_ID_COLUMN]
\* a call that keeps a row and drops the row of a station of an unselected site
C1_Witness ==
    /\ Called("filter_data_task")
    /\ fn_in.selected_sites = Some(<<"s1">>)
    /\ fn_in.selected_aws = None
    /\ fn_in.dates = NoDates
    /\ fn_in.sites_data.df.rows = <<SitesRow("s1", "n1", 1), SitesRow("s2", "n2", 2)>>
    /\ Len(fn_in.weather_data.df.rows) = 2
    /\ Len(fn_out.res.ret.rows) = 1
    /\ fn_in.weather_data.df.rows[2][AWS_ID_COLUMN] = 2

\* C6 (as claimed): the tables passed to a transform function are the same
\* after the call as before it
C6_SameTable(before, after) ==
    /\ after.isStr = before.isStr
    /\ after.df.columns = before.df.columns
    /\ after.df.rows = before.df.rows
C6_ArgumentsUntouched ==
    /\ Called("preprocess_data_task") =>
          /\ C6_SameTable(fn_in.weather_data, fn_out.res.weather_after)
          /\ C6_SameTable(fn_in.sites_data, fn_out.res.sites_after)
    /\ Called("filter_data_task") =>
          /\ C6_SameTable(fn_in.weather_data, fn_out.res.weather_after)
          /\ C6_SameTable(fn_in.sites_data, fn_out.res.sites_after)
    /\ (Called("create_figure_task") /\ ~fn_in.filtered_data.none) =>
          /\ ~fn_out.res.filtered_after.none
          /\ fn_out.res.filtered_after.v.columns = fn_in.filtered_data.v.columns
          /\ fn_out.res.filtered_after.v.rows = fn_in.filtered_data.v.rows
\* C8: filter_data_task keeps exactly the weather rows that pass the site
\* condition, the station condition and the inclusive date condition, in order;
\* an empty or missing selection restricts nothing
C8_UnderSites(r) ==
    \/ fn_in.selected_sites.none
    \/ fn_in.selected_sites.v = <<>>
    \/ \E j \in 1..Len(fn_in.sites_data.df.rows) :
          /\ fn_in.sites_data.df.rows[j][SITES_COLUMN] \in SetOf(fn_in.selected_sites.v)
          /\ fn_in.sites_data.df.rows[j][AWS_ID_COLUMN] = r[AWS_ID_COLUMN]
C8_InAws(r) ==
    \/ fn_in.selected_aws.none
    \/ fn_in.selected_aws.v = <<>>
    \/ r[AWS_ID_COLUMN] \in SetOf(fn_in.selected_aws.v)
C8_InDates(r) ==
    \/ fn_in.dates.none
    \/ fn_in.dates.lo.k = "none"
    \/ fn_in.dates.hi.k = "none"
    \/ /\ fn_in.dates.lo.k = "ts" /\ fn_in.dates.hi.k = "ts"
       /\ fn_in.dates.lo.t <= ToDatetime(r) /\ ToDatetime(r) <= fn_in.dates.hi.t
C8_Keeps(r) == C8_UnderSites(r) /\ C8_InAws(r) /\ C8_InDates(r)
C8_StationAndDate(rows) ==
    [i \in 1..Len(rows) |-> <<rows[i][AWS_ID_COLUMN], rows[i][DATE_COLUMN]>>]
C8_KeepsExactly ==
    Called("filter_data_task") =>
        C8_StationAndDate(fn_out.res.ret.rows)
          = [i \in 1..Len(SelectSeq(fn_in.weather_data.df.rows, C8_Keeps)) |->
               LET r == SelectSeq(fn_in.weather_data.df.rows, C8_Keeps)[i]
               IN <<r[AWS_ID_COLUMN], ToDatetime(r)>>]
\* all three selections made; a row on each bound is kept, a row is dropped
C8_Witness ==
    /\ Called("filter_data_task")
    /\ Truthy(fn_in.selected_sites) /\ Truthy(fn_in.selected_aws)
    /\ fn_in.dates = DateRange(Ts(HoursPerDay), Ts(2 * HoursPerDay))
    /\ Len(fn_in.weather_data.df.rows) = 2
    /\ C8_StationAndDate(fn_out.res.ret.rows) = <<<<1, 2 * HoursPerDay>>, <<1, HoursPerDay>>>>
C8_WitnessDrop ==
    /\ Called("filter_data_task")
    /\ Truthy(fn_in.selected_sites) /\ Truthy(fn_in.selected_aws)
    /\ fn_in.dates = DateRange(Ts(HoursPerDay), Ts(HoursPerDay))
    /\ Len(fn_in.weather_data.df.rows) = 2
    /\ C8_StationAndDate(fn_out.res.ret.rows) = <<<<1, HoursPerDay>>>>
    /\ fn_in.weather_data.df.rows[2][AWS_ID_COLUMN] = 1

\* C2: with no parameter selected (empty or None) create_figure_task returns a
\* placeholder chart, no trace and a placeholder title, whatever the table; and
\* after on_parameter_change has run with state.parameters = [] the figure
\* shown has no trace
PlaceholderTitles == {"No data available for selected filters",
                      "No valid parameters selected or parameters not in data"}
IsPlaceholder(fig) == fig.traces = <<>> /\ fig.title \in PlaceholderTitles
C2_NoParametersPlaceholder ==
    /\ (Called("create_figure_task") /\ ~Truthy(fn_in.parameters)) =>
          IsPlaceholder(fn_out.res.ret)
    /\ (last_cb = "on_parameter_change" /\ outcome = "returned" /\ st_parameters = <<>>) =>
          (~st_figure.none /\ IsPlaceholder(st_figure.v))
\* the parameters are cleared while the filtered table has rows
C2_Witness ==
    /\ last_cb = "on_parameter_change" /\ outcome = "returned"
    /\ st_parameters = <<>>
    /\ ~scenario.filtered_data.none /\ scenario.filtered_data.v.rows # <<>>
    /\ ~st_figure.none /\ st_figure.v.traces = <<>>

\* C3 (as claimed): after on_date_change has returned, the dates data node is
\* state.dates and every row of filtered_data lies in the selected range
C3_ChartInSelectedRange ==
    (last_cb = "on_date_change" /\ outcome = "returned") =>
        /\ scenario.dates = st_dates
        /\ \A i \in 1..Len(scenario.filtered_data.v.rows) :
              /\ st_dates.lo.t <= scenario.filtered_data.v.rows[i][DATE_COLUMN]
              /\ scenario.filtered_data.v.rows[i][DATE_COLUMN] <= st_dates.hi.t

\* C4: in every callback, a data-node read, a data-node write or a submit that
\* raises ends the callback with the error printed and raised to the caller
C4_FailureIsRaised ==
    failed_op # "none" => (outcome = "raised" /\ console = ErrorIn(last_cb))
C4_Witness ==
    /\ last_cb = "on_aws_selection" /\ failed_op \in SubmitFails
    /\ outcome = "raised"
C4_WitnessSite ==
    /\ last_cb = "on_site_selection" /\ failed_op = "write_selected_aws"
    /\ outcome = "raised"

\* C5 (as claimed): when on_site_selection reads a sites_data that is no table,
\* it ends by raising
C5_TypeCheckRaises ==
    (last_cb = "on_site_selection" /\ sites_data.isStr /\ failed_op = "none") =>
        outcome = "raised"
\* C5 (amended): when on_site_selection reads a sites_data that is no table, it
\* prints an error and returns normally, and writes no data node, submits
\* nothing and leaves the station selector and the figure as they were
C5_TypeCheckReturns ==
    [][(last_cb' = "on_site_selection" /\ sites_data.isStr /\ failed_op' = "none") =>
          /\ outcome' = "returned"
          /\ console' = NotADataFrame
          /\ scenario' = scenario
          /\ st_figure' = st_figure
          /\ st_Aws' = st_Aws
          /\ st_Aws_default' = st_Aws_default
          /\ st_aws_name_to_id_map' = st_aws_name_to_id_map]_vars
C5_Witness ==
    /\ last_cb = "on_site_selection" /\ sites_data.isStr
    /\ console = NotADataFrame /\ outcome = "returned"
    /\ st_site_names = <<"s1">>

\* C7: once the last callback has completed without error (it returned and
\* reported no error), state.figure is the figure data node, which is
\* create_figure_task(filtered_data, parameters), where filtered_data is
\* filter_data_task of the current values of the six input data nodes
CompletedWithoutError == outcome = "returned" /\ console = <<>>
C7_NoStaleChart ==
    (phase = "ready" /\ (outcome = "none" \/ CompletedWithoutError)) =>
        /\ st_figure = scenario.figure
        /\ scenario.figure
             = Some(create_figure_task(scenario.filtered_data, scenario.parameters).ret)
        /\ scenario.filtered_data
             = Some(filter_data_task(sites_data, weather_data, scenario.selected_sites,
                                     scenario.selected_aws, scenario.dates,
                                     scenario.parameters).ret)
\* a callback completes after an earlier one failed between its write and the
\* end of the submit
C7_Witness ==
    /\ CompletedWithoutError /\ last_cb = "on_date_change"
    /\ failures >= 1
    /\ scenario.parameters = Some(<<"p2", "p1">>)
    /\ scenario.selected_aws = Some(<<2>>)
    /\ ~st_figure.none /\ Len(st_figure.v.traces) = 2

\* C9 (as claimed): when the page starts, the dates data node holds the default
\* range create_scenario_instance wrote, (now - 30 days, now), and the date
\* selector starts from it
C9_DefaultDatesHeld ==
    (phase = "ready" /\ last_cb = "none") =>
        /\ scenario.dates = DefaultDates(now)
        /\ st_dates = DefaultDates(now)

\* C10: after on_site_selection has completed without error, selected_aws holds
\* the one station ID mapped from the first display name among the stations of
\* the selected sites, or the empty list when no site is selected or the
\* selected sites have no station
C10_RowsOfSelected ==
    {j \in 1..Len(sites_data.df.rows) :
        sites_data.df.rows[j][SITES_COLUMN] \in SetOf(st_site_names)}
C10_FirstName ==
    sites_data.df.rows[CHOOSE j \in C10_RowsOfSelected :
                          \A k \in C10_RowsOfSelected : j <= k][SITE_AWS_DISPLAY_COLUMN]
C10_MappedId ==
    LET named == {j \in C10_RowsOfSelected :
                     sites_data.df.rows[j][SITE_AWS_DISPLAY_COLUMN] = C10_FirstName}
    IN sites_data.df.rows[CHOOSE j \in named : \A k \in named : k <= j][AWS_ID_COLUMN]
C10_OneStationSelected ==
    (last_cb = "on_site_selection" /\ CompletedWithoutError) =>
        /\ C10_RowsOfSelected # {} => scenario.selected_aws = Some(<<C10_MappedId>>)
        /\ C10_RowsOfSelected = {} => scenario.selected_aws = Some(<<>>)
\* two sites whose stations share a display name are selected, after station 1
\* of the first site had been selected
C10_Witness ==
    /\ last_cb = "on_site_selection" /\ CompletedWithoutError
    /\ sites_data = TableValue(SharedDisplayName)
    /\ st_site_names = <<"s2", "s1">>
    /\ scenario.selected_aws = Some(<<2>>)

\* C11: for a non-empty filtered table and a selection with at least one
\* parameter among the table's columns, create_figure_task returns a figure
\* with exactly one trace for each pair of a station ID in the table and a
\* selected parameter that is a column, (#stations) x (#valid parameters)
\* traces in all, each drawn from that station's rows; a selected parameter
\* that is no column gives no trace
C11_Stations == {fn_in.filtered_data.v.rows[i][AWS_ID_COLUMN] :
                    i \in 1..Len(fn_in.filtered_data.v.rows)}
C11_Present == {p \in SetOf(fn_in.parameters.v) : p \in SetOf(fn_in.filtered_data.v.columns)}
C11_RowsOf(id) ==
    {i \in 1..Len(fn_in.filtered_data.v.rows) :
        fn_in.filtered_data.v.rows[i][AWS_ID_COLUMN] = id}
C11_Case ==
    /\ Called("create_figure_task")
    /\ ~fn_in.filtered_data.none /\ fn_in.filtered_data.v.rows # <<>>
    /\ Truthy(fn_in.parameters) /\ C11_Present # {}
C11_OneTracePerPair ==
    C11_Case =>
        LET traces == fn_out.res.ret.traces
        IN /\ Len(traces) = Cardinality(C11_Stations) * Cardinality(C11_Present)
           /\ \A id \in C11_Stations, p \in C11_Present :
                  Cardinality({i \in 1..Len(traces) : traces[i].name = <<id, p>>}) = 1
           /\ \A i \in 1..Len(traces) :
                  /\ traces[i].name[1] \in C11_Stations
                  /\ traces[i].name[2] \in C11_Present
                  /\ Len(traces[i].y) = Cardinality(C11_RowsOf(traces[i].name[1]))
                  /\ Len(traces[i].x) = Len(traces[i].y)
\* two stations, and a selection of which one parameter of three is a column
C11_Witness ==
    /\ C11_Case
    /\ fn_in.parameters = Some(<<"p2", "zz", "p1">>)
    /\ C11_Present = {"p1"}
    /\ C11_Stations = {1, 2}
    /\ Len(fn_out.res.ret.traces) = 2

\* C12 (as claimed): a submit does not execute filter_data_task again when the
\* six input data nodes hold the values they held at its previous execution,
\* as when a callback submits the same selection a second time.  (After a
\* callback that completed without error, and after start-up, the nodes hold
\* the values of the previous execution: no node is written after the
\* submit.)
C12_Inputs == <<sites_data, weather_data, scenario.selected_sites, scenario.selected_aws,
                scenario.dates, scenario.parameters>>
C12_Executed(task, sc) == \E i \in 1..Len(sc.ran) : sc.ran[i] = task
C12_SkipOnUnchangedInput ==
    [][(/\ phase = "ready" /\ (outcome = "none" \/ CompletedWithoutError)
        /\ CompletedWithoutError'
        /\ C12_Inputs' = C12_Inputs)
          => ~C12_Executed("filter_data", scenario')]_vars

====
